---- MODULE Spec2Model ----
(***************************************************************************)
(* aa-proxy-rs: the Bluetooth (RFCOMM) Wi-Fi credential handshake of       *)
(* src/src/bluetooth.rs and the TCP <-> USB proxy loop of                  *)
(* src/src/io_uring.rs.                                                    *)
(*                                                                         *)
(* The specifications share the module's variables:                        *)
(*   SpecCodec  send_message / read_message applied to bounded inputs      *)
(*   SpecBt     bluetooth_setup_connection against a phone                 *)
(*   SpecIo     io_loop supervising the five session tasks                 *)
(*   SpecCopy   one direction of copy between two endpoints                *)
(*   SpecSession  transfer_monitor, the two workers and try_join! in one   *)
(*              running session, time counted in 100 ms ticks              *)
(*   SpecBtLife   bring-up, handshake outcome and bluetooth_stop with the  *)
(*              Bluetooth resources and the two HSP tasks                  *)
(* Each specification keeps the variables of the others at their idle     *)
(* value.                                                                  *)
(***************************************************************************)
EXTENDS Integers, Sequences, FiniteSets, TLC

VARIABLES
    \* ---- codec (send_message, read_message)
    c_pc,        \* "send" | "read" | "done"
    c_id,        \* MessageId given to send_message
    c_expect,    \* MessageId given to read_message
    c_data,      \* message.write_to_bytes(): the serialized body
    c_stream,    \* bytes the stream accepted from send_message, not yet read
    c_sent,      \* send_message's result
    c_read,      \* read_message's result
    \* ---- bluetooth_setup_connection and the phone on the RFCOMM stream
    bt_pc,       \* "powerup" | "s1" .. "s5" | "shutdown" | "done" | "failed"
    bt_stage,    \* the local `stage`
    bt_rx,       \* bytes the phone sent that the dongle has not read yet
    bt_closed,   \* the phone closed the stream
    bt_frames,   \* frames the phone has sent
    bt_log,      \* the sends and receives performed on the stream, in order
    bt_notified, \* calls of tcp_start.notify_one() made by this call
    bt_result,   \* "none" | "ok" | "err": what the call returned
    \* ---- io_loop, its five session tasks and the two notifications
    io_pc,       \* "wait_tcp" | "accept" | "open_usb" | "join" | "returned"
    io_mitm,     \* mitm || full_frames
    io_iter,     \* iterations of the loop that got past tcp_start.notified()
    tcp_start,   \* tcp_start (Notify) holds a permit
    io_tasks,    \* the task behind each of the five JoinHandles last spawned
    io_orphans,  \* tasks of earlier sessions that are still running
    io_ops,      \* endpoint reads/writes by tasks of the running session
    io_lateOps,  \* endpoint reads/writes by tasks of a session that has ended
    io_fired,    \* need_restart.notify_one() calls in this iteration
    io_notifies, \* tcp_start.notify_one() calls so far
    io_attempts, \* accepts, USB opens and session spawns io_loop has made, and
                 \* how the latest accept went
    \* ---- copy, one direction
    cp_pc,       \* "read" | "read_body" | "write" | "ok" | "err" | "panicked"
    cp_full,     \* full_frames
    cp_src,      \* every byte the `from` endpoint delivers before its end
    cp_rpos,     \* bytes read from `from` so far
    cp_buf,      \* buf[..n]
    cp_remain,   \* remain
    cp_dst,      \* bytes the `to` endpoint accepted, in order
    cp_bytes_written, \* bytes_written
    cp_last,     \* the latest read or write of the task and what it returned
    \* ---- transfer_monitor beside the two workers of a session
    m_pc,        \* "loop" | "sleep" | "err": where transfer_monitor stands
    read_timeout,          \* read_timeout, in 100 ms ticks
    m_elapsed,             \* stall_check.elapsed(), in 100 ms ticks
    usb_bytes_written,     \* file_bytes: written to USB by from_stream
    tcp_bytes_written,     \* stream_bytes: written to TCP by from_file
    stall_usb_bytes_last,  \* the local of that name
    stall_tcp_bytes_last,  \* the local of that name
    m_silent,    \* per counter: ticks since it last changed (since session start)
    m_checks,    \* stall checks performed so far
    m_seen,      \* the counters as loaded at the latest stall check
    m_prev,      \* the counters as loaded at the stall check before that one
    \* ---- power_up_and_wait_for_connection, the handshake after it, bluetooth_stop
    pw_pc,         \* where the call stands
    cfg,           \* advertise, dongle_mode, btalias, connect, keepalive, the serial file
    alias,         \* the local `alias`
    powered,       \* the adapter's Powered property
    handle_ble,    \* the BLE advertisement is registered
    handle_agent,  \* the pairing agent is registered
    handle_aa,     \* the AAWG profile is registered
    hsp_profile,   \* the HSP profile is registered
    connect_task,  \* "none" | "running" | "ok" | "err" | "aborted"
    task_hsp,      \* "none" | "running" | "ok" | "err" | "panicked"
    hsp_joinable,  \* somebody still holds task_hsp's JoinHandle
    pw_result,     \* what bluetooth_setup_connection returned
    stop_power,    \* bluetooth_stop's power step: "none" | "off" | "kept" | "failed"
    stop_result    \* what bluetooth_stop returned

codecVars == <<c_pc, c_id, c_expect, c_data, c_stream, c_sent, c_read>>
btVars == <<bt_pc, bt_stage, bt_rx, bt_closed, bt_frames, bt_log, bt_notified,
            bt_result>>

ioVars == <<io_pc, io_mitm, io_iter, tcp_start, io_tasks, io_orphans, io_ops,
            io_lateOps, io_fired, io_notifies, io_attempts>>

copyVars == <<cp_pc, cp_full, cp_src, cp_rpos, cp_buf, cp_remain, cp_dst,
              cp_bytes_written, cp_last>>

monVars == <<m_pc, read_timeout, m_elapsed, usb_bytes_written, tcp_bytes_written,
             stall_usb_bytes_last, stall_tcp_bytes_last, m_silent, m_checks,
             m_seen, m_prev>>

lifeVars == <<pw_pc, cfg, alias, powered, handle_ble, handle_agent, handle_aa,
              hsp_profile, connect_task, task_hsp, hsp_joinable, pw_result,
              stop_power, stop_result>>

vars == <<codecVars, btVars, ioVars, copyVars, monVars, lifeVars>>

-----------------------------------------------------------------------------
(* Bounds of the model *)

\* longest small message body drawn as an input
MaxBody == 3
\* a short write accepts at most this many bytes, or misses at most this many
MaxPartial == 1
\* frames the phone sends during one handshake
MaxPhoneFrames == 3
\* iterations of io_loop past the tcp_start wait
MaxIter == 2
\* endpoint operations counted per session
MaxOps == 2
\* tcp_start.notify_one() calls
MaxNotifies == 3
\* longest unframed source stream of copy
MaxSrc == 4
\* longest read_timeout, in 100 ms ticks
MaxTimeout == 2
\* bytes a worker writes in one session
MaxBytes == 2

-----------------------------------------------------------------------------
(* bluetooth.rs: constants and MessageId *)

HEADER_LEN == 4
STAGES == 5

WifiStartRequest == 1
WifiInfoRequest == 2
WifiInfoResponse == 3
WifiVersionRequest == 4
WifiVersionResponse == 5
WifiConnectStatus == 6
WifiStartResponse == 7

MessageId == WifiStartRequest..WifiStartResponse

\* u16: the width of the header's two fields
U16 == 65536

\* byte values that occur in the modelled bodies: 0x00, 0x08, 0xFD
BodyBytes == {0, 8, 253}

RECURSIVE SeqsUpTo(_, _)
SeqsUpTo(S, n) ==
    IF n = 0 THEN {<<>>}
    ELSE LET shorter == SeqsUpTo(S, n - 1)
         IN  shorter \cup {Append(s, b) : s \in {t \in shorter : Len(t) = n - 1}, b \in S}

\* bodies around the u16 limit of the length field; byte 2 is the status byte
LongBody(n, b) == [i \in 1..n |-> IF i = 2 THEN b ELSE 8]
LongBodies ==
    {LongBody(U16 - 1, 0), LongBody(U16 - 1, 253), LongBody(U16, 0),
     LongBody(U16 + 1, 0)}

Bodies == SeqsUpTo(BodyBytes, MaxBody) \cup LongBodies

\* write_u16 / u16::from_be_bytes: big endian
write_u16(n) == <<(n \div 256) % 256, n % 256>>
from_be_bytes(hi, lo) == hi * 256 + lo

\* the packet send_message builds: `as u16` keeps the low 16 bits
packetLE(id, data) ==
    <<(Len(data) % U16) % 256, ((Len(data) % U16) \div 256) % 256>>
        \o write_u16(id % U16) \o data
packet(id, data) ==
    write_u16(Len(data) % U16) \o write_u16(id % U16) \o data

\* stream.write(&buf) of n bytes, one write call: the stream accepts all of the
\* buffer or a part of it (Ok(k), k in 1..n), or the call fails and accepts nothing
WriteAccepts(n) ==
    {k \in 1..n : k = n \/ k <= MaxPartial \/ k >= n - MaxPartial}
WriteResults(n) ==
    {[ok |-> TRUE, n |-> k] : k \in WriteAccepts(n)} \cup {[ok |-> FALSE, n |-> 0]}

\* send_message: the bytes the stream took and the Result<usize>; w is what
\* stream.write answered
send_message(id, data, w) ==
    IF ~w.ok
    THEN [ok |-> FALSE, n |-> 0, wrote |-> <<>>]
    ELSE [ok |-> TRUE, n |-> w.n, wrote |-> SubSeq(packet(id, data), 1, w.n)]

StatusFailsNever(id, buf, n) == FALSE
\* message_id != id
IdMismatchNever(message_id, id) == FALSE
IdMismatch(message_id, id) == message_id # id

\* the WifiConnectStatus analysis of the body just read (n bytes in buf)
StatusFailsFirstByte(id, buf, n) ==
    id = WifiConnectStatus /\ n >= 2 /\ buf[1] # 0
StatusFails(id, buf, n) ==
    id = WifiConnectStatus /\ n >= 2 /\ buf[2] # 0

\* read_message on a stream holding the bytes rx; eof: the peer closed, no more
\* bytes will come.  res: "ok" | "mismatch" | "joinfail" | "eof" | "blocked"
\* (read_exact still waiting).  consumed: bytes taken from the stream.
read_message(rx, eof, id) ==
    IF Len(rx) < HEADER_LEN
    THEN [res |-> IF eof THEN "eof" ELSE "blocked", n |-> 0,
          consumed |-> IF eof THEN Len(rx) ELSE 0, got |-> 0, expected |-> id]
    ELSE
      LET len == from_be_bytes(rx[1], rx[2])
          message_id == from_be_bytes(rx[3], rx[4])
      IN
      IF IdMismatch(message_id, id)
      THEN [res |-> "mismatch", n |-> 0, consumed |-> HEADER_LEN,
            got |-> message_id, expected |-> id]
      ELSE IF len > 0 /\ Len(rx) < HEADER_LEN + len
      THEN [res |-> IF eof THEN "eof" ELSE "blocked", n |-> 0,
            consumed |-> IF eof THEN Len(rx) ELSE 0,
            got |-> message_id, expected |-> id]
      ELSE IF len > 0
              /\ StatusFails(id, SubSeq(rx, HEADER_LEN + 1, HEADER_LEN + len), len)
      THEN [res |-> "joinfail", n |-> 0, consumed |-> HEADER_LEN + len,
            got |-> message_id, expected |-> id]
      ELSE [res |-> "ok", n |-> HEADER_LEN + len, consumed |-> HEADER_LEN + len,
            got |-> message_id, expected |-> id]

NoResult == [res |-> "none", n |-> 0, consumed |-> 0, got |-> 0, expected |-> 0]
NoSend == [ok |-> FALSE, n |-> 0, wrote |-> <<>>]

-----------------------------------------------------------------------------
(* Idle values: what a specification holds the other parts' variables at *)

CodecIdle ==
    /\ c_pc = "idle" /\ c_id = 0 /\ c_expect = 0 /\ c_data = <<>>
    /\ c_stream = <<>> /\ c_sent = NoSend /\ c_read = NoResult

BtIdle ==
    /\ bt_pc = "idle" /\ bt_stage = 0 /\ bt_rx = <<>> /\ bt_closed = FALSE
    /\ bt_frames = 0 /\ bt_log = <<>> /\ bt_notified = 0 /\ bt_result = "none"

Tasks == {"reader_hu", "reader_md", "from_file", "from_stream", "monitor"}

NoAttempts == [accept |-> 0, open |-> 0, spawn |-> 0, res |-> "none"]

IoIdle ==
    /\ io_pc = "idle" /\ io_mitm = FALSE /\ io_iter = 0 /\ tcp_start = FALSE
    /\ io_tasks = [t \in Tasks |-> "none"] /\ io_orphans = {}
    /\ io_ops = 0 /\ io_lateOps = 0 /\ io_fired = 0
    /\ io_notifies = 0 /\ io_attempts = NoAttempts

NoIo == [op |-> "none", ok |-> TRUE, n |-> 0]

CopyIdle ==
    /\ cp_pc = "idle" /\ cp_full = FALSE /\ cp_src = <<>> /\ cp_rpos = 0
    /\ cp_buf = <<>> /\ cp_remain = 0 /\ cp_dst = <<>> /\ cp_bytes_written = 0
    /\ cp_last = NoIo

Counters == {"usb", "tcp"}
NoCounts == [usb |-> 0, tcp |-> 0]

MonIdle ==
    /\ m_pc = "idle" /\ read_timeout = 0 /\ m_elapsed = 0
    /\ usb_bytes_written = 0 /\ tcp_bytes_written = 0
    /\ stall_usb_bytes_last = 0 /\ stall_tcp_bytes_last = 0
    /\ m_silent = NoCounts /\ m_checks = 0 /\ m_seen = NoCounts /\ m_prev = NoCounts

\* Option<String>, and the outcome of reading a file to a string
None == [some |-> FALSE, val |-> <<>>]
Some(x) == [some |-> TRUE, val |-> x]
Unreadable == [ok |-> FALSE, contents |-> <<>>]
Readable(x) == [ok |-> TRUE, contents |-> x]

NoCfg == [advertise |-> FALSE, dongle_mode |-> FALSE, connect |-> FALSE,
          keepalive |-> FALSE, btalias |-> None, serial |-> Unreadable]

LifeIdle ==
    /\ pw_pc = "idle" /\ cfg = NoCfg /\ alias = <<>> /\ powered = FALSE
    /\ handle_ble = FALSE /\ handle_agent = FALSE /\ handle_aa = FALSE
    /\ hsp_profile = FALSE /\ connect_task = "none" /\ task_hsp = "none"
    /\ hsp_joinable = FALSE /\ pw_result = "none"
    /\ stop_power = "none" /\ stop_result = "none"

-----------------------------------------------------------------------------
(* SpecCodec: send_message, then read_message on what the stream took *)

CodecInit ==
    /\ BtIdle /\ IoIdle /\ CopyIdle /\ MonIdle /\ LifeIdle
    /\ c_pc = "send"
    /\ c_id \in MessageId
    /\ c_expect \in MessageId
    /\ c_data \in Bodies
    /\ c_stream = <<>>
    /\ c_sent = NoSend
    /\ c_read = NoResult

CodecSend ==
    /\ c_pc = "send"
    /\ \E w \in WriteResults(HEADER_LEN + Len(c_data)) :
          /\ c_sent' = send_message(c_id, c_data, w)
          /\ c_stream' = c_sent'.wrote
    /\ c_pc' = "read"
    /\ UNCHANGED <<c_id, c_expect, c_data, c_read>>
    /\ UNCHANGED <<btVars, ioVars, copyVars, monVars, lifeVars>>

\* the writer is gone after its one frame: the reader sees end of stream after it
CodecRead ==
    /\ c_pc = "read"
    /\ c_read' = read_message(c_stream, TRUE, c_expect)
    /\ c_stream' = SubSeq(c_stream, c_read'.consumed + 1, Len(c_stream))
    /\ c_pc' = "done"
    /\ UNCHANGED <<c_id, c_expect, c_data, c_sent>>
    /\ UNCHANGED <<btVars, ioVars, copyVars, monVars, lifeVars>>

CodecNext == CodecSend \/ CodecRead

SpecCodec == CodecInit /\ [][CodecNext]_vars

(* ---- claims on the codec ---- *)

\* what read_message found on the stream: the frame send_message's write left there
WireLen == from_be_bytes(c_sent.wrote[1], c_sent.wrote[2])
WireId == from_be_bytes(c_sent.wrote[3], c_sent.wrote[4])
HeaderOnWire == Len(c_sent.wrote) >= HEADER_LEN
FrameOnWire == HeaderOnWire /\ Len(c_sent.wrote) >= HEADER_LEN + WireLen
WholeWrite == c_sent.ok /\ c_sent.n = HEADER_LEN + Len(c_data)

\* C3: a header whose MessageId differs from the expected one makes read_message
\* fail with the mismatch error naming the received and the expected id, after
\* consuming exactly the 4 header bytes, whatever length the header declares.
C3_MismatchReadsHeaderOnly ==
    (c_pc = "done" /\ HeaderOnWire /\ WireId # c_expect) =>
        /\ c_read.res = "mismatch"
        /\ c_read.got = WireId
        /\ c_read.expected = c_expect
        /\ c_read.consumed = HEADER_LEN
        /\ c_stream = SubSeq(c_sent.wrote, HEADER_LEN + 1, Len(c_sent.wrote))

\* C3 witness: id 7 arrives where WifiInfoRequest is expected, its body stays unread
C3_Witness ==
    /\ c_pc = "done" /\ c_read.res = "mismatch"
    /\ c_read.got = WifiStartResponse /\ c_read.expected = WifiInfoRequest
    /\ Len(c_stream) = 3

\* C4: for a complete frame with the expected id, read_message fails exactly when
\* WifiConnectStatus is expected, the body has at least 2 bytes and body[1] is not
\* 0; bodies of 0 or 1 bytes and bodies of every other MessageId never fail.
C4_StatusByteDecides ==
    (c_pc = "done" /\ FrameOnWire /\ WireId = c_expect) =>
        IF c_expect = WifiConnectStatus /\ WireLen >= 2
        THEN /\ c_read.res \in {"ok", "joinfail"}
             /\ c_read.res = "ok" <=> c_sent.wrote[HEADER_LEN + 2] = 0
        ELSE c_read.res = "ok"

\* C4 witness: status frame [08, FD, ..] refused although its first byte is the
\* usual 08
C4_Witness ==
    /\ c_pc = "done" /\ c_expect = WifiConnectStatus /\ FrameOnWire
    /\ c_read.res = "joinfail"
    /\ c_sent.wrote[HEADER_LEN + 1] = 8 /\ c_sent.wrote[HEADER_LEN + 2] = 253

RoundTrip ==
    /\ c_read.res = "ok"
    /\ c_read.consumed = HEADER_LEN + Len(c_data)
    /\ c_stream = <<>>
    /\ c_read.n = HEADER_LEN + Len(c_data)
    /\ c_sent.ok /\ c_sent.n = c_read.n

\* C5 as stated: every MessageId and every body of at most 65535 bytes
\* round-trips (read for the frames that reached the stream whole).
C5_RoundTripAlways ==
    (c_pc = "done" /\ c_id = c_expect /\ Len(c_data) <= U16 - 1 /\ WholeWrite)
        => RoundTrip

\* C5 amended: the round trip holds when the stream's single write took the whole
\* frame, except for a WifiConnectStatus body of 2 or more bytes whose second
\* byte is not 0.
C5_RoundTrip ==
    (/\ c_pc = "done" /\ c_id = c_expect /\ Len(c_data) <= U16 - 1
     /\ WholeWrite
     /\ ~(c_id = WifiConnectStatus /\ Len(c_data) >= 2 /\ c_data[2] # 0))
        => RoundTrip

\* C5 witness: the WifiConnectStatus frame with body [08, 00] round-trips
C5_Witness ==
    /\ c_pc = "done" /\ c_id = WifiConnectStatus /\ c_expect = WifiConnectStatus
    /\ c_data = <<8, 0>> /\ WholeWrite
    /\ c_read.res = "ok" /\ c_read.n = 6

\* C6 as stated: a body longer than 65535 bytes makes send_message fail without
\* writing, and a frame written in full states its body's length in its header.
C6_OversizeRefused ==
    c_pc \in {"read", "done"} =>
        /\ Len(c_data) > U16 - 1 => (~c_sent.ok /\ c_sent.wrote = <<>>)
        /\ WholeWrite => WireLen = Len(c_sent.wrote) - HEADER_LEN


-----------------------------------------------------------------------------
(* SpecBt: bluetooth_setup_connection, one call, and the phone *)

\* the serialized WifiStartRequest{ip, port} and WifiInfoResponse{ssid, key, ...}
\* of the configured WifiConfig (protobuf: opaque here)
StartReqBytes == <<10, 8>>
InfoBytes == <<10, 18, 26>>

\* what the phone may put on the stream
PhoneFrames ==
    {<<WifiInfoRequest, <<>>>>, <<WifiInfoRequest, <<8, 253>>>>,
     <<WifiInfoResponse, <<>>>>,
     <<WifiStartResponse, <<>>>>,
     <<WifiConnectStatus, <<8>>>>, <<WifiConnectStatus, <<8, 0>>>>,
     <<WifiConnectStatus, <<8, 253>>>>}

SendEntry(id, sent) == [op |-> "send", id |-> id, ok |-> sent.ok, bytes |-> sent.wrote]
RecvEntry(id, r, rx) ==
    [op |-> "recv", id |-> id, ok |-> r.res = "ok", bytes |-> SubSeq(rx, 1, r.consumed)]

BtInit ==
    /\ CodecIdle /\ IoIdle /\ CopyIdle /\ MonIdle /\ LifeIdle
    /\ bt_pc = "powerup"
    /\ bt_stage = 1
    /\ bt_rx = <<>>
    /\ bt_closed = FALSE
    /\ bt_frames = 0
    /\ bt_log = <<>>
    /\ bt_notified = 0
    /\ bt_result = "none"

\* the phone writes one frame
PhoneSend ==
    /\ bt_pc \in {"s1", "s2", "s3", "s4", "s5"}
    /\ ~bt_closed
    /\ bt_frames < MaxPhoneFrames
    /\ \E f \in PhoneFrames : bt_rx' = bt_rx \o packet(f[1], f[2])
    /\ bt_frames' = bt_frames + 1
    /\ UNCHANGED <<bt_pc, bt_stage, bt_closed, bt_log, bt_notified, bt_result>>
    /\ UNCHANGED <<codecVars, ioVars, copyVars, monVars, lifeVars>>

\* the phone closes the stream (or the link drops)
PhoneClose ==
    /\ bt_pc \in {"s1", "s2", "s3", "s4", "s5"}
    /\ ~bt_closed
    /\ bt_closed' = TRUE
    /\ UNCHANGED <<bt_pc, bt_stage, bt_rx, bt_frames, bt_log, bt_notified, bt_result>>
    /\ UNCHANGED <<codecVars, ioVars, copyVars, monVars, lifeVars>>

\* power_up_and_wait_for_connection(...).await?
BtPowerUp ==
    /\ bt_pc = "powerup"
    /\ \/ bt_pc' = "s1" /\ bt_result' = bt_result
       \/ bt_pc' = "failed" /\ bt_result' = "err"
    /\ UNCHANGED <<bt_stage, bt_rx, bt_closed, bt_frames, bt_log, bt_notified>>
    /\ UNCHANGED <<codecVars, ioVars, copyVars, monVars, lifeVars>>

\* a send stage: send_message(...).await? and the statements up to the next await
BtSend(at, id, body, stageAfter, next) ==
    /\ bt_pc = at
    /\ \E w \in WriteResults(HEADER_LEN + Len(body)) :
         LET sent == send_message(id, body, IF bt_closed THEN [ok |-> FALSE, n |-> 0] ELSE w)
         IN  /\ bt_log' = Append(bt_log, SendEntry(id, sent))
             /\ IF sent.ok
                THEN bt_pc' = next /\ bt_stage' = stageAfter /\ bt_result' = bt_result
                ELSE bt_pc' = "failed" /\ bt_stage' = bt_stage /\ bt_result' = "err"
    /\ UNCHANGED <<bt_rx, bt_closed, bt_frames, bt_notified>>
    /\ UNCHANGED <<codecVars, ioVars, copyVars, monVars, lifeVars>>

\* a receive stage: read_message(...).await? and the statements up to the next
\* await; `notify`: tcp_start.notify_one() follows the read
BtRecv(at, id, stageAfter, next, notify) ==
    /\ bt_pc = at
    /\ LET r == read_message(bt_rx, bt_closed, id)
       IN  /\ r.res # "blocked"
           /\ bt_log' = Append(bt_log, RecvEntry(id, r, bt_rx))
           /\ bt_rx' = SubSeq(bt_rx, r.consumed + 1, Len(bt_rx))
           /\ IF r.res = "ok"
              THEN /\ bt_pc' = next
                   /\ bt_stage' = stageAfter
                   /\ bt_result' = bt_result
                   /\ bt_notified' = IF notify THEN bt_notified + 1 ELSE bt_notified
              ELSE /\ bt_pc' = "failed"
                   /\ bt_stage' = bt_stage
                   /\ bt_result' = "err"
                   /\ bt_notified' = bt_notified
    /\ UNCHANGED <<bt_closed, bt_frames>>
    /\ UNCHANGED <<codecVars, ioVars, copyVars, monVars, lifeVars>>

\* stage 1: send WifiStartRequest; stage += 1
BtStage1 == BtSend("s1", WifiStartRequest, StartReqBytes, 2, "s2")
\* stage 2: read WifiInfoRequest; stage += 1 (before the next send)
BtStage2 == BtRecv("s2", WifiInfoRequest, 3, "s3", FALSE)
\* stage 3: send WifiInfoResponse; stage += 1
BtStage3BeforeRequest == BtSend("s2", WifiInfoResponse, InfoBytes, 4, "s4")
BtStage3 == BtSend("s3", WifiInfoResponse, InfoBytes, 4, "s4")
\* stage 4: read WifiStartResponse; stage += 1
BtStage4 == BtRecv("s4", WifiStartResponse, 5, "s5", FALSE)
\* stage 5: read WifiConnectStatus; then tcp_start.notify_one()
BtStage5 == BtRecv("s5", WifiConnectStatus, 5, "shutdown", TRUE)

\* stream.shutdown().await?; Ok(state)
BtShutdown ==
    /\ bt_pc = "shutdown"
    /\ \/ bt_pc' = "done" /\ bt_result' = "ok"
       \/ bt_pc' = "failed" /\ bt_result' = "err"
    /\ UNCHANGED <<bt_stage, bt_rx, bt_closed, bt_frames, bt_log, bt_notified>>
    /\ UNCHANGED <<codecVars, ioVars, copyVars, monVars, lifeVars>>

BtNext ==
    \/ PhoneSend \/ PhoneClose
    \/ BtPowerUp
    \/ BtStage1 \/ BtStage2 \/ BtStage3 \/ BtStage4 \/ BtStage5
    \/ BtShutdown

SpecBt == BtInit /\ [][BtNext]_vars

(* ---- claims on the handshake ---- *)

\* the order of the traffic of a handshake
StageOrder ==
    <<[op |-> "send", id |-> WifiStartRequest],
      [op |-> "recv", id |-> WifiInfoRequest],
      [op |-> "send", id |-> WifiInfoResponse],
      [op |-> "recv", id |-> WifiStartResponse],
      [op |-> "recv", id |-> WifiConnectStatus]>>

\* the MessageId in the header of the bytes a logged operation moved
EntryWireId(e) == from_be_bytes(e.bytes[3], e.bytes[4])

\* C1: the sends and receives on the stream are a prefix of: send
\* WifiStartRequest, receive WifiInfoRequest, send WifiInfoResponse, receive
\* WifiStartResponse, receive WifiConnectStatus; a stage starts only after the
\* one before it succeeded (a received frame carrying the expected id), so
\* nothing follows a failed stage.
C1_StagesInOrder ==
    /\ Len(bt_log) <= STAGES
    /\ \A i \in 1..Len(bt_log) :
          /\ bt_log[i].op = StageOrder[i].op
          /\ bt_log[i].id = StageOrder[i].id
          /\ i < Len(bt_log) => bt_log[i].ok
          /\ (bt_log[i].ok /\ bt_log[i].op = "recv") =>
                /\ Len(bt_log[i].bytes) >= HEADER_LEN
                /\ EntryWireId(bt_log[i]) = StageOrder[i].id

\* C1 witness: WifiInfoResponse was sent, after a WifiInfoRequest was received
C1_Witness ==
    /\ Len(bt_log) >= 3
    /\ bt_log[3].op = "send" /\ bt_log[3].id = WifiInfoResponse /\ bt_log[3].ok
    /\ EntryWireId(bt_log[2]) = WifiInfoRequest

AllStagesOk == Len(bt_log) = STAGES /\ \A i \in 1..STAGES : bt_log[i].ok
SomeStageFailed == \E i \in 1..Len(bt_log) : ~bt_log[i].ok
\* the status byte of the stage-5 frame, when its body has one
StatusNonZero(e) ==
    Len(e.bytes) >= HEADER_LEN + 2 /\ e.bytes[HEADER_LEN + 2] # 0

\* C2: tcp_start is notified at most once; it has been notified once all five
\* stages succeeded, and only then, the stage-5 status byte being 0; after a
\* failed stage it has not been notified.
C2_NotifyOnceOnSuccess ==
    /\ bt_notified <= 1
    /\ AllStagesOk <=> bt_notified = 1
    /\ bt_notified = 1 => ~StatusNonZero(bt_log[STAGES])
    /\ SomeStageFailed => bt_notified = 0
    /\ \A i \in 1..Len(bt_log) :
          (bt_log[i].op = "recv" /\ bt_log[i].ok) =>
              EntryWireId(bt_log[i]) = StageOrder[i].id

\* C2 witness: a handshake that returned Ok after a [08, 00] status
C2_Witness ==
    /\ bt_pc = "done" /\ bt_result = "ok" /\ bt_notified = 1
    /\ bt_log[STAGES].bytes = packet(WifiConnectStatus, <<8, 0>>)

\* C24 as stated: a handshake that returned an error did not notify tcp_start,
\* the failure of the final stream shutdown included.
C24_ErrorMeansNotNotified ==
    bt_result = "err" => bt_notified = 0


-----------------------------------------------------------------------------
(* SpecIo: io_loop, the five tasks of a session, tcp_start and need_restart *)

\* what a task can end with by itself: "ok" (returned Ok), "err" (returned Err),
\* "panicked" (its JoinHandle yields a JoinError)
\* copy(.., full_frames = false): Ok on a read of 0 bytes, Err on a failed or
\* timed out read or write
CopyOutcomes == {"ok", "err"}
\* transfer_monitor leaves its loop only by the stall error
MonitorOutcomes == {"err"}
\* dummy_thread sleeps in a loop forever
DummyOutcomes == {}
\* endpoint_reader and proxy (crate::mitm)
MitmOutcomes == {"ok", "err", "panicked"}

Outcomes(t) ==
    IF t = "monitor" THEN MonitorOutcomes
    ELSE IF io_mitm THEN MitmOutcomes
    ELSE IF t \in {"from_file", "from_stream"} THEN CopyOutcomes
    ELSE DummyOutcomes

\* the tasks that read or write the USB or TCP endpoint
EndpointTasks ==
    IF io_mitm THEN Tasks \ {"monitor"} ELSE {"from_file", "from_stream"}

\* flatten(&mut handle) for a task in the given state
flattenPanicUnseen(st) ==
    IF st = "ok" THEN "Ok" ELSE IF st = "err" THEN "Err" ELSE "Pending"
flatten(st) ==
    IF st = "ok" THEN "Ok"
    ELSE IF st \in {"err", "panicked", "aborted"} THEN "Err"
    ELSE "Pending"

\* tokio::try_join!(flatten(..) x 5) is complete: one future is Err, or all are Ok
try_join_all(ts) == \A t \in Tasks : flatten(ts[t]) # "Pending"
\* try_join! without the monitor's handle
try_join_workers(ts) ==
    \/ \E t \in Tasks \ {"monitor"} : flatten(ts[t]) = "Err"
    \/ \A t \in Tasks \ {"monitor"} : flatten(ts[t]) = "Ok"
try_join(ts) ==
    \/ \E t \in Tasks : flatten(ts[t]) = "Err"
    \/ \A t \in Tasks : flatten(ts[t]) = "Ok"

\* the handles io_loop calls abort() on after try_join!
AbortedButFromStream == Tasks \ {"from_stream"}
Aborted == Tasks

IoInit ==
    /\ CodecIdle /\ BtIdle /\ CopyIdle /\ MonIdle /\ LifeIdle
    /\ io_pc = "wait_tcp"
    /\ io_mitm \in BOOLEAN
    /\ io_iter = 0
    /\ tcp_start = FALSE
    /\ io_tasks = [t \in Tasks |-> "none"]
    /\ io_orphans = {}
    /\ io_ops = 0
    /\ io_lateOps = 0
    /\ io_fired = 0
    /\ io_notifies = 0
    /\ io_attempts = NoAttempts

\* TcpStartNotify, but a notification that finds no waiter is dropped
TcpStartNotifyLost ==
    /\ io_notifies < MaxNotifies
    /\ io_notifies' = io_notifies + 1
    /\ tcp_start' = (io_pc = "wait_tcp")
    /\ UNCHANGED <<io_pc, io_mitm, io_iter, io_tasks, io_orphans, io_ops,
                   io_lateOps, io_fired, io_attempts>>
    /\ UNCHANGED <<codecVars, btVars, copyVars, monVars, lifeVars>>

\* bluetooth_setup_connection, on the other runtime: tcp_start.notify_one()
TcpStartNotify ==
    /\ io_notifies < MaxNotifies
    /\ io_notifies' = io_notifies + 1
    /\ tcp_start' = TRUE
    /\ UNCHANGED <<io_pc, io_mitm, io_iter, io_tasks, io_orphans, io_ops,
                   io_lateOps, io_fired, io_attempts>>
    /\ UNCHANGED <<codecVars, btVars, copyVars, monVars, lifeVars>>

\* IoWaitTcp, but going on without a permit
IoWaitTcpNoPermit ==
    /\ io_pc = "wait_tcp"
    /\ io_iter < MaxIter
    /\ tcp_start' = FALSE
    /\ io_iter' = io_iter + 1
    /\ io_fired' = 0
    /\ io_pc' = "accept"
    /\ UNCHANGED <<io_mitm, io_tasks, io_orphans, io_ops, io_lateOps, io_notifies,
                   io_attempts>>
    /\ UNCHANGED <<codecVars, btVars, copyVars, monVars, lifeVars>>

\* tcp_start.notified().await returns, consuming the permit
IoWaitTcp ==
    /\ io_pc = "wait_tcp"
    /\ tcp_start
    /\ io_iter < MaxIter
    /\ tcp_start' = FALSE
    /\ io_iter' = io_iter + 1
    /\ io_fired' = 0
    /\ io_pc' = "accept"
    /\ UNCHANGED <<io_mitm, io_tasks, io_orphans, io_ops, io_lateOps, io_notifies,
                   io_attempts>>
    /\ UNCHANGED <<codecVars, btVars, copyVars, monVars, lifeVars>>

\* timeout(TCP_CLIENT_TIMEOUT, listener.accept()).await, then set_nodelay(true)?
IoAccept ==
    /\ io_pc = "accept"
    /\ \E res \in {"accepted", "nodelay_err", "accept_err"} :
          /\ io_pc' = CASE res = "accepted" -> "open_usb"
                        [] res = "nodelay_err" -> "returned"
                        [] res = "accept_err" -> "wait_tcp"
          /\ io_fired' = IF res = "accept_err" THEN io_fired + 1 ELSE io_fired
          /\ io_attempts' = [io_attempts EXCEPT !.accept = @ + 1, !.res = res]
    /\ UNCHANGED <<io_mitm, io_iter, tcp_start, io_tasks, io_orphans, io_ops,
                   io_lateOps, io_notifies>>
    /\ UNCHANGED <<codecVars, btVars, copyVars, monVars, lifeVars>>

\* OpenOptions..open(USB_ACCESSORY_PATH).await?, then the five spawns; the
\* handles of the session before go out of scope, their tasks detached
IoOpenUsb ==
    /\ io_pc = "open_usb"
    /\ \E opened \in BOOLEAN :
          IF opened
          THEN /\ io_orphans' = io_orphans \cup {t \in Tasks : io_tasks[t] = "running"}
               /\ io_tasks' = [t \in Tasks |-> "running"]
               /\ io_ops' = 0
               /\ io_pc' = "join"
               /\ io_attempts' = [io_attempts EXCEPT !.open = @ + 1, !.spawn = @ + 1]
          ELSE /\ io_pc' = "returned"
               /\ io_attempts' = [io_attempts EXCEPT !.open = @ + 1]
               /\ UNCHANGED <<io_tasks, io_orphans, io_ops>>
    /\ UNCHANGED <<io_mitm, io_iter, tcp_start, io_lateOps, io_fired, io_notifies>>
    /\ UNCHANGED <<codecVars, btVars, copyVars, monVars, lifeVars>>

\* try_join! completes; abort() on the handles; need_restart.notify_one(); the
\* loop goes back to tcp_start.notified().await.  A task that is not running on
\* this single-threaded runtime is never polled again once aborted.
IoJoin ==
    /\ io_pc = "join"
    /\ try_join(io_tasks)
    /\ io_tasks' = [t \in Tasks |->
                      IF t \in Aborted /\ io_tasks[t] = "running"
                      THEN "aborted" ELSE io_tasks[t]]
    /\ io_fired' = io_fired + 1
    /\ io_pc' = "wait_tcp"
    /\ UNCHANGED <<io_mitm, io_iter, tcp_start, io_orphans, io_ops, io_lateOps,
                   io_notifies, io_attempts>>
    /\ UNCHANGED <<codecVars, btVars, copyVars, monVars, lifeVars>>

\* a running task reads from or writes to its endpoint
TaskIo(t) ==
    /\ t \in EndpointTasks
    /\ io_tasks[t] = "running" \/ t \in io_orphans
    /\ IF io_pc = "join" /\ io_tasks[t] = "running"
       THEN io_ops < MaxOps /\ io_ops' = io_ops + 1 /\ io_lateOps' = io_lateOps
       ELSE io_lateOps < MaxOps /\ io_lateOps' = io_lateOps + 1 /\ io_ops' = io_ops
    /\ UNCHANGED <<io_pc, io_mitm, io_iter, tcp_start, io_tasks, io_orphans, io_fired,
                   io_notifies, io_attempts>>
    /\ UNCHANGED <<codecVars, btVars, copyVars, monVars, lifeVars>>

\* a running task returns or panics
TaskEnd(t) ==
    /\ io_tasks[t] = "running"
    /\ \E o \in Outcomes(t) : io_tasks' = [io_tasks EXCEPT ![t] = o]
    /\ UNCHANGED <<io_pc, io_mitm, io_iter, tcp_start, io_orphans, io_ops,
                   io_lateOps, io_fired, io_notifies, io_attempts>>
    /\ UNCHANGED <<codecVars, btVars, copyVars, monVars, lifeVars>>

IoNext ==
    \/ TcpStartNotify
    \/ IoWaitTcp \/ IoAccept \/ IoOpenUsb \/ IoJoin
    \/ \E t \in Tasks : TaskIo(t)
    \/ \E t \in Tasks : TaskEnd(t)

SpecIo == IoInit /\ [][IoNext]_vars

\* the supervisor is polled again once a handle it awaits has completed
SpecIoFair == SpecIo /\ WF_vars(IoJoin)

(* ---- claims on io_loop ---- *)

Completed(ts) == {t \in Tasks : ts[t] \in {"ok", "err", "panicked"}}
Failed(ts) == {t \in Tasks : ts[t] \in {"err", "panicked"}}

\* C7 as stated: in a running session, once any task has completed (Ok or error)
\* the supervisor's step that ends the session can be taken.
C7_EndsOnAnyCompletion ==
    (io_pc = "join" /\ Completed(io_tasks) # {}) => ENABLED IoJoin

\* C7 amended: the step that ends a running session can be taken exactly when a
\* task has failed (returned Err or panicked) or all five have returned Ok: a
\* task that returned Ok does not end the session.  Once the session has ended,
\* none of the five tasks runs and need_restart was fired once.
C7_EndsOnFirstError ==
    /\ io_pc = "join" =>
          (ENABLED IoJoin <=>
              (Failed(io_tasks) # {} \/ Completed(io_tasks) = Tasks))
    /\ (io_pc = "wait_tcp" /\ io_iter > 0) =>
          /\ \A t \in Tasks : io_tasks[t] # "running"
          /\ io_fired = 1

\* C7 witness: a session that ended on from_stream's error after from_file had
\* returned Ok; the other three were aborted
C7_Witness ==
    /\ io_pc = "wait_tcp" /\ io_fired = 1
    /\ io_tasks["from_file"] = "ok" /\ io_tasks["from_stream"] = "err"
    /\ \A t \in {"reader_hu", "reader_md", "monitor"} : io_tasks[t] = "aborted"

\* C8: once a task of the running session has returned an error or panicked,
\* the supervisor eventually has aborted every task of the session and fired
\* need_restart; need_restart is never fired twice in one iteration.
C8_ErrorEndsSession ==
    /\ (io_pc = "join" /\ Failed(io_tasks) # {})
          ~> (/\ io_pc = "wait_tcp" /\ io_fired = 1
              /\ \A t \in Tasks : io_tasks[t] # "running")
    /\ [](io_fired <= 1)

\* C8 witness: the monitor's stall error ended a session whose other tasks were
\* all still running
C8_Witness ==
    /\ io_pc = "wait_tcp" /\ io_fired = 1
    /\ io_tasks["monitor"] = "err"
    /\ \A t \in Tasks \ {"monitor"} : io_tasks[t] = "aborted"

\* C9: whenever io_loop is not inside a session's try_join!, none of the five
\* tasks last spawned runs; no task of an earlier session runs beside a later
\* one; and no endpoint read or write is done by a task whose session has ended.
C9_AbortCompleteness ==
    /\ io_pc # "join" => \A t \in Tasks : io_tasks[t] # "running"
    /\ io_orphans = {}
    /\ io_lateOps = 0

\* C9 witness: the second session runs and does I/O; every task of the first is
\* gone
C9_Witness ==
    /\ io_iter = 2 /\ io_pc = "join" /\ io_ops > 0
    /\ \A t \in Tasks : io_tasks[t] = "running"
    /\ io_orphans = {}

\* C19: io_loop accepts, opens the USB device and spawns a session only in an
\* iteration that got past tcp_start.notified(), and no more iterations get
\* past it than tcp_start.notify_one() was called; the open follows a
\* successful accept of the same iteration and the spawn a successful open.
\* A failed or timed-out accept opens nothing and spawns nothing, fires
\* need_restart once and leaves io_loop waiting for tcp_start.
C19_AcceptOnlyAfterTcpStart ==
    /\ [](/\ io_iter <= io_notifies
          /\ io_attempts.accept <= io_iter
          /\ io_attempts.spawn <= io_attempts.open
          /\ io_attempts.open <= io_attempts.accept
          /\ io_pc \in {"accept", "open_usb", "join"} => io_attempts.accept + 1 >= io_iter
          /\ io_pc = "wait_tcp" => io_attempts.accept = io_iter
          /\ io_pc = "accept" => io_attempts.accept = io_iter - 1)
    /\ [][/\ io_iter' # io_iter => (tcp_start /\ ~tcp_start' /\ io_iter' = io_iter + 1)
          /\ io_attempts'.open # io_attempts.open =>
                (io_attempts.res = "accepted" /\ io_attempts.open < io_attempts.accept
                 /\ io_attempts.accept = io_iter)
          /\ (io_attempts'.accept # io_attempts.accept /\ io_attempts'.res = "accept_err") =>
                /\ io_attempts'.open = io_attempts.open
                /\ io_attempts'.spawn = io_attempts.spawn
                /\ io_tasks' = io_tasks
                /\ io_fired = 0 /\ io_fired' = 1
                /\ io_pc' = "wait_tcp"]_vars

\* C19 witness: the first iteration ran a session; in the second the accept
\* failed: need_restart fired, nothing opened, io_loop waits for tcp_start
C19_Witness ==
    /\ io_pc = "wait_tcp" /\ io_iter = 2 /\ io_fired = 1
    /\ io_attempts = [accept |-> 2, open |-> 1, spawn |-> 1, res |-> "accept_err"]
    /\ ~tcp_start

\* C25 as stated: io_loop never returns; need_restart is fired at most once per
\* tcp_start received and not before the first one; an iteration that got past
\* the tcp_start wait is back at that wait only with need_restart fired once.
C25_NeverReturnsFiresOnce ==
    /\ io_pc # "returned"
    /\ io_fired <= 1
    /\ io_iter = 0 => io_fired = 0
    /\ (io_pc = "wait_tcp" /\ io_iter > 0) => io_fired = 1

\* C26: tcp_start.notify_one() always leaves a notification behind, wherever
\* io_loop is; a retained notification goes away only by io_loop getting past
\* its wait, which is possible whenever io_loop waits with a notification
\* retained; getting past the wait leaves none retained, however many
\* notify_one calls came before, and is followed by at most one accept.
C26_NoLostWakeup ==
    /\ []((io_pc = "wait_tcp" /\ tcp_start /\ io_iter < MaxIter) => ENABLED IoWaitTcp)
    /\ [](io_attempts.accept <= io_iter /\ io_iter <= io_notifies)
    /\ [][/\ io_notifies' # io_notifies => tcp_start'
          /\ (tcp_start /\ ~tcp_start') =>
                (io_pc = "wait_tcp" /\ io_pc' = "accept" /\ io_iter' = io_iter + 1)
          /\ io_iter' # io_iter => ~tcp_start']_vars

\* C26 witness: after MaxNotifies calls of notify_one io_loop got past its wait
\* once; a call made while the session runs has left one notification retained
C26_Witness ==
    /\ io_pc = "join" /\ io_iter = 1 /\ io_attempts.accept = 1
    /\ io_notifies = MaxNotifies /\ tcp_start

-----------------------------------------------------------------------------
(* SpecCopy: copy(from, to, .., bytes_written, read_timeout, full_frames) *)

BUFFER_LEN == 16384
\* crate::mitm
HEADER_LENGTH == 4
FRAME_TYPE_FIRST == 2
FRAME_TYPE_MASK == 3

Min(a, b) == IF a < b THEN a ELSE b

RECURSIVE BitAnd(_, _)
BitAnd(a, b) ==
    IF a = 0 \/ b = 0 THEN 0
    ELSE (a % 2) * (b % 2) + 2 * BitAnd(a \div 2, b \div 2)

\* the unframed stream 1, 2, .., n: every byte differs from the others
Stream(n) == [i \in 1..n |-> i]

\* framed streams: channel, flags, len (u16 BE), [total_len (u32 BE)], body
FramedSources ==
    {<<1, 0, 0, 2, 21, 22>>,                      \* one frame, body of 2
     <<1, 0, 0, 1, 21, 1, 0, 0, 0>>,              \* body of 1, then an empty frame
     <<1, 2, 0, 1, 0, 0, 1, 0, 21>>,              \* FIRST frame, body of 1
     <<1, 0, 64, 0>>,                             \* len 16384: 4 + len > BUFFER_LEN
     <<1, 2, 63, 252>>,                           \* FIRST, len 16380: 8 + len > BUFFER_LEN
     <<1, 0, 63, 252, 21>>,                       \* len 16380: fits, body cut short
     <<1, 0, 0, 1, 21, 1, 2, 63, 252>>}           \* body of 1, then the FIRST frame above

\* a stream of one FIRST frame: channel 1, flags 2, len 16, then the 4 bytes of
\* the total length and 16 body bytes; read by a task with full_frames
LongFrame == <<1, 2, 0, 16, 0, 0, 1, 0>> \o [i \in 1..16 |-> 100 + i]

CopySources == {Stream(n) : n \in 0..MaxSrc} \cup FramedSources

\* from.read(buf.slice(..)) under timeout(read_timeout, ..): an error or a
\* timeout, Ok(0) at the end of the stream, or Ok(k) with whatever part of the
\* bytes asked for has arrived
ReadResults(cap, avail) ==
    {[ok |-> FALSE, n |-> 0]} \cup
    {[ok |-> TRUE, n |-> k] : k \in IF avail = 0 THEN {0} ELSE 1..Min(cap, avail)}

\* message_length without the 4 more header bytes of a FIRST frame
message_length_plain(buf) == (buf[4] + buf[3] * 256) % U16

\* message_length of the header in buf
message_length(buf) ==
    LET len == (buf[4] + buf[3] * 256) % U16
    IN  IF BitAnd(buf[2], FRAME_TYPE_MASK) = FRAME_TYPE_FIRST THEN len + 4 ELSE len

CopyInit ==
    /\ CodecIdle /\ BtIdle /\ IoIdle /\ MonIdle /\ LifeIdle
    /\ cp_pc = "read"
    /\ cp_full \in BOOLEAN
    /\ cp_src \in IF cp_full THEN CopySources \cup {LongFrame} ELSE CopySources
    /\ cp_rpos = 0
    /\ cp_buf = <<>>
    /\ cp_remain = 0
    /\ cp_dst = <<>>
    /\ cp_bytes_written = 0
    /\ cp_last = NoIo

\* the first read of an iteration and what follows it up to the next await
CopyRead ==
    /\ cp_pc = "read"
    /\ \E r \in ReadResults(IF cp_full THEN HEADER_LENGTH ELSE BUFFER_LEN,
                            Len(cp_src) - cp_rpos) :
         LET buf == SubSeq(cp_src, cp_rpos + 1, cp_rpos + r.n)
         IN  /\ cp_rpos' = cp_rpos + r.n
             /\ cp_last' = [op |-> "read", ok |-> r.ok, n |-> r.n]
             /\ IF ~r.ok
                THEN cp_pc' = "err" /\ UNCHANGED <<cp_buf, cp_remain>>
                ELSE IF r.n = 0
                THEN cp_pc' = "ok" /\ UNCHANGED <<cp_buf, cp_remain>>
                ELSE IF ~cp_full
                THEN cp_pc' = "write" /\ cp_buf' = buf /\ cp_remain' = cp_remain
                ELSE IF r.n # HEADER_LENGTH
                THEN cp_pc' = "ok" /\ cp_buf' = buf /\ cp_remain' = cp_remain
                ELSE IF HEADER_LENGTH + message_length(buf) > BUFFER_LEN
                THEN cp_pc' = "panicked" /\ cp_buf' = buf /\ cp_remain' = cp_remain
                ELSE /\ cp_buf' = buf
                     /\ cp_remain' = message_length(buf)
                     /\ cp_pc' = IF message_length(buf) > 0 THEN "read_body" ELSE "write"
    /\ UNCHANGED <<cp_full, cp_src, cp_dst, cp_bytes_written>>
    /\ UNCHANGED <<codecVars, btVars, ioVars, monVars, lifeVars>>

\* CopyReadBody, but leaving the loop after one read
CopyReadBodyOnce ==
    /\ cp_pc = "read_body"
    /\ \E r \in ReadResults(cp_remain, Len(cp_src) - cp_rpos) :
         /\ cp_rpos' = cp_rpos + r.n
         /\ cp_last' = [op |-> "read_body", ok |-> r.ok, n |-> r.n]
         /\ IF ~r.ok
            THEN cp_pc' = "err" /\ UNCHANGED <<cp_buf, cp_remain>>
            ELSE IF r.n = 0
            THEN cp_pc' = "ok" /\ UNCHANGED <<cp_buf, cp_remain>>
            ELSE /\ cp_remain' = cp_remain - r.n
                 /\ cp_buf' = cp_buf \o SubSeq(cp_src, cp_rpos + 1, cp_rpos + r.n)
                 /\ cp_pc' = "write"
    /\ UNCHANGED <<cp_full, cp_src, cp_dst, cp_bytes_written>>
    /\ UNCHANGED <<codecVars, btVars, ioVars, monVars, lifeVars>>

\* one read of `while remain > 0`
CopyReadBody ==
    /\ cp_pc = "read_body"
    /\ \E r \in ReadResults(cp_remain, Len(cp_src) - cp_rpos) :
         /\ cp_rpos' = cp_rpos + r.n
         /\ cp_last' = [op |-> "read_body", ok |-> r.ok, n |-> r.n]
         /\ IF ~r.ok
            THEN cp_pc' = "err" /\ UNCHANGED <<cp_buf, cp_remain>>
            ELSE IF r.n = 0
            THEN cp_pc' = "ok" /\ UNCHANGED <<cp_buf, cp_remain>>
            ELSE /\ cp_remain' = cp_remain - r.n
                 /\ cp_buf' = cp_buf \o SubSeq(cp_src, cp_rpos + 1, cp_rpos + r.n)
                 /\ cp_pc' = IF cp_remain' > 0 THEN "read_body" ELSE "write"
    /\ UNCHANGED <<cp_full, cp_src, cp_dst, cp_bytes_written>>
    /\ UNCHANGED <<codecVars, btVars, ioVars, monVars, lifeVars>>

\* CopyWrite, but counting the bytes handed to the write, not the bytes it took
CopyWriteCountsBuffer ==
    /\ cp_pc = "write"
    /\ \E w \in WriteResults(Len(cp_buf)) :
         /\ cp_last' = [op |-> "write", ok |-> w.ok, n |-> w.n]
         /\ IF ~w.ok
            THEN cp_pc' = "err" /\ UNCHANGED <<cp_dst, cp_bytes_written, cp_buf>>
            ELSE /\ cp_dst' = cp_dst \o SubSeq(cp_buf, 1, w.n)
                 /\ cp_bytes_written' = cp_bytes_written + Len(cp_buf)
                 /\ cp_buf' = <<>>
                 /\ cp_pc' = "read"
    /\ UNCHANGED <<cp_full, cp_src, cp_rpos, cp_remain>>
    /\ UNCHANGED <<codecVars, btVars, ioVars, monVars, lifeVars>>

\* to.write(buf.slice(..n)).submit() under timeout; bytes_written.fetch_add(n)
CopyWrite ==
    /\ cp_pc = "write"
    /\ \E w \in WriteResults(Len(cp_buf)) :
         /\ cp_last' = [op |-> "write", ok |-> w.ok, n |-> w.n]
         /\ IF ~w.ok
            THEN cp_pc' = "err" /\ UNCHANGED <<cp_dst, cp_bytes_written, cp_buf>>
            ELSE /\ cp_dst' = cp_dst \o SubSeq(cp_buf, 1, w.n)
                 /\ cp_bytes_written' = cp_bytes_written + w.n
                 /\ cp_buf' = <<>>
                 /\ cp_pc' = "read"
    /\ UNCHANGED <<cp_full, cp_src, cp_rpos, cp_remain>>
    /\ UNCHANGED <<codecVars, btVars, ioVars, monVars, lifeVars>>

CopyNext == CopyRead \/ CopyReadBody \/ CopyWrite

SpecCopy == CopyInit /\ [][CopyNext]_vars

(* ---- claims on copy ---- *)

IsPrefix(a, b) == Len(a) <= Len(b) /\ a = SubSeq(b, 1, Len(a))

\* C10 as stated: the bytes written to `to` are always a prefix of the bytes
\* read from `from`, and before a loop iteration issues its first read every
\* byte read so far has been written.
C10_PassThrough ==
    /\ IsPrefix(cp_dst, SubSeq(cp_src, 1, cp_rpos))
    /\ cp_pc = "read" => cp_dst = SubSeq(cp_src, 1, cp_rpos)

\* the `len` field of a frame header, and the bytes the whole frame takes on
\* the wire: a FIRST frame (flags mod 4 = 2) has 4 more header bytes
HeaderLen(hdr) == hdr[3] * 256 + hdr[4]
FrameBytes(hdr) ==
    HEADER_LENGTH + HeaderLen(hdr) + (IF hdr[2] % 4 = 2 THEN 4 ELSE 0)

\* C17 as stated: copy with full_frames rejects a frame exactly when
\* HEADER_LENGTH + len exceeds BUFFER_LEN, first-fragment frames included.
C17_OversizeByLen ==
    /\ cp_pc = "panicked" => HEADER_LENGTH + HeaderLen(cp_buf) > BUFFER_LEN
    /\ (cp_full /\ cp_pc \in {"read_body", "write"}) =>
          HEADER_LENGTH + HeaderLen(cp_buf) <= BUFFER_LEN

\* C17 amended: copy with full_frames panics on a complete header exactly when
\* the whole frame, 4 header bytes, 4 more for a first-fragment frame, and len
\* body bytes, exceeds BUFFER_LEN; flatten reports the panicked task as Err;
\* nothing of that frame has been written or counted.
C17_OversizeByFrame ==
    /\ cp_pc = "panicked" =>
          /\ cp_full /\ Len(cp_buf) = HEADER_LENGTH
          /\ FrameBytes(cp_buf) > BUFFER_LEN
          /\ flatten(cp_pc) = "Err"
          /\ Len(cp_dst) <= cp_rpos - HEADER_LENGTH
          /\ cp_bytes_written = Len(cp_dst)
    /\ (cp_full /\ cp_pc \in {"read_body", "write"}) =>
          FrameBytes(cp_buf) <= BUFFER_LEN

\* C17 witness: after a frame with a body of 1 was passed on, a first-fragment
\* header with len 16380 (4 + len = BUFFER_LEN) made copy panic
C17_Witness ==
    /\ cp_pc = "panicked" /\ cp_buf = <<1, 2, 63, 252>>
    /\ cp_dst = <<1, 0, 0, 1, 21>>
    /\ HEADER_LENGTH + HeaderLen(cp_buf) = BUFFER_LEN

\* C11: the direction's bytes_written starts at 0, never decreases, is changed
\* only by the write step of that direction's copy, and always equals the sum
\* of the counts its successful writes returned (the number of bytes the `to`
\* endpoint accepted); a failed or timed-out write leaves it as it was.
C11_CounterIsSumOfWrites ==
    /\ cp_bytes_written = 0
    /\ [](cp_bytes_written = Len(cp_dst))
    /\ [][/\ cp_bytes_written' >= cp_bytes_written
          /\ cp_bytes_written' # cp_bytes_written => (cp_pc = "write" /\ cp_pc' = "read")
          /\ cp_pc' = "err" => cp_bytes_written' = cp_bytes_written]_vars

\* C11 witness: after a short write (1 of 2 bytes) and a whole one, the third
\* write failed; the counter stands at the 2 bytes the two writes returned
C11_Witness ==
    /\ cp_pc = "err" /\ ~cp_full /\ cp_buf # <<>>
    /\ cp_rpos = 4 /\ cp_dst = <<1, 3>> /\ cp_bytes_written = 2

\* the latest read returned Ok(0)
ReadEof == cp_last.op \in {"read", "read_body"} /\ cp_last.ok /\ cp_last.n = 0

\* C21 as stated: copy ends with Ok exactly on a read of 0 bytes, with an
\* error exactly on a failed or timed-out read or write, and in no other way.
C21_OnlyEofOrError ==
    /\ cp_pc = "ok" <=> ReadEof
    /\ cp_pc = "err" <=> ~cp_last.ok
    /\ cp_pc \in {"read", "read_body", "write", "ok", "err"}

\* C22 as stated: with full_frames, after a header read that returned 1 to 3
\* bytes the task goes on reading, and a frame is taken up only with its 4
\* header bytes.
C22_HeaderReadExactly ==
    /\ (cp_full /\ cp_last.op = "read" /\ cp_last.ok /\ cp_last.n \in 1..3) =>
          cp_pc \notin {"ok", "err", "panicked"}
    /\ (cp_full /\ cp_pc \in {"read_body", "write"}) => Len(cp_buf) >= HEADER_LENGTH

\* C23: with full_frames the buffer handed to a write is one whole frame as it
\* came from the source: 4 + len bytes, 8 + len for a FIRST frame; while the
\* body is incomplete copy keeps reading what remains of it.
C23_WholeFramePerWrite ==
    /\ (cp_full /\ cp_pc = "write") =>
          /\ Len(cp_buf) = FrameBytes(cp_buf)
          /\ cp_remain = 0
          /\ cp_buf = SubSeq(cp_src, cp_rpos - Len(cp_buf) + 1, cp_rpos)
    /\ (cp_full /\ cp_pc = "read_body") =>
          /\ cp_remain > 0
          /\ Len(cp_buf) + cp_remain = FrameBytes(cp_buf)
          /\ cp_buf = SubSeq(cp_src, cp_rpos - Len(cp_buf) + 1, cp_rpos)

\* C23 witness: channel 1, flags 2, len 16: the write is handed 24 bytes, the
\* last body read having brought fewer bytes than the 20 that follow the header
C23_Witness ==
    /\ cp_full /\ cp_pc = "write" /\ Len(cp_buf) = 24
    /\ SubSeq(cp_buf, 1, 4) = <<1, 2, 0, 16>>
    /\ cp_last.op = "read_body" /\ cp_last.n < 20

-----------------------------------------------------------------------------
(* SpecSession: one running session of io_loop: transfer_monitor, the two    *)
(* workers that count their writes, and try_join!.  Time advances by one     *)
(* 100 ms tick with every sleep of transfer_monitor.                         *)

\* the counter a worker's writes are added to: from_file is given stream_bytes
\* (tcp_bytes_written), from_stream is given file_bytes (usb_bytes_written)
Workers == {"from_file", "from_stream"}
WorkerCounter(t) == IF t = "from_file" THEN "tcp" ELSE "usb"

\* `if stall_check.elapsed() > read_timeout`
stall_due_late(elapsed, timeout) == elapsed > timeout + 1
stall_due(elapsed, timeout) == elapsed > timeout

\* `if stall_usb_bytes_last == 0 || stall_tcp_bytes_last == 0` on the two deltas
stalledBoth(delta_usb, delta_tcp) == delta_usb = 0 /\ delta_tcp = 0
stalled(delta_usb, delta_tcp) == delta_usb = 0 \/ delta_tcp = 0

\* a check passes only when both counters grew: m_checks stops counting here
ChecksCap == MaxBytes + 1
\* m_silent stops counting here
SilentCap == 2 * (MaxTimeout + 1) + 2

SessionInit ==
    /\ CodecIdle /\ BtIdle /\ CopyIdle /\ LifeIdle
    /\ io_pc = "join"
    /\ io_mitm = FALSE      \* the copy branch: the workers are two copy tasks
    /\ io_iter = 1
    /\ tcp_start = FALSE
    /\ io_tasks = [t \in Tasks |-> "running"]
    /\ io_orphans = {}
    /\ io_ops = 0
    /\ io_lateOps = 0
    /\ io_fired = 0
    /\ io_notifies = 1
    /\ io_attempts = [accept |-> 1, open |-> 1, spawn |-> 1, res |-> "accepted"]
    /\ m_pc = "loop"
    /\ read_timeout \in 1..MaxTimeout
    /\ m_elapsed = 0
    /\ usb_bytes_written = 0
    /\ tcp_bytes_written = 0
    /\ stall_usb_bytes_last = 0
    /\ stall_tcp_bytes_last = 0
    /\ m_silent = NoCounts
    /\ m_checks = 0
    /\ m_seen = NoCounts
    /\ m_prev = NoCounts

\* a worker's write returned n > 0: bytes_written.fetch_add(n)
SessWrite(t) ==
    /\ t \in Workers
    /\ io_tasks[t] = "running"
    /\ IF WorkerCounter(t) = "tcp"
       THEN /\ tcp_bytes_written < MaxBytes
            /\ tcp_bytes_written' = tcp_bytes_written + 1
            /\ usb_bytes_written' = usb_bytes_written
       ELSE /\ usb_bytes_written < MaxBytes
            /\ usb_bytes_written' = usb_bytes_written + 1
            /\ tcp_bytes_written' = tcp_bytes_written
    /\ m_silent' = [m_silent EXCEPT ![WorkerCounter(t)] = 0]
    /\ UNCHANGED <<m_pc, read_timeout, m_elapsed, stall_usb_bytes_last,
                   stall_tcp_bytes_last, m_checks, m_seen, m_prev>>
    /\ UNCHANGED <<codecVars, btVars, ioVars, copyVars, lifeVars>>

\* one pass of transfer_monitor's loop body up to its sleep: load the counters,
\* (the statistics block only logs), the stall check
MonLoop ==
    /\ m_pc = "loop"
    /\ io_tasks["monitor"] = "running"
    /\ LET usb_bytes_out == usb_bytes_written
           tcp_bytes_out == tcp_bytes_written
           delta_usb == usb_bytes_out - stall_usb_bytes_last
           delta_tcp == tcp_bytes_out - stall_tcp_bytes_last
       IN  IF ~stall_due(m_elapsed, read_timeout)
           THEN /\ m_pc' = "sleep"
                /\ UNCHANGED <<m_elapsed, stall_usb_bytes_last, stall_tcp_bytes_last,
                               m_checks, m_seen, m_prev, io_tasks>>
           ELSE /\ m_checks' = Min(m_checks + 1, ChecksCap)
                /\ m_prev' = m_seen
                /\ m_seen' = [usb |-> usb_bytes_out, tcp |-> tcp_bytes_out]
                /\ IF stalled(delta_usb, delta_tcp)
                   THEN /\ m_pc' = "err"
                        /\ io_tasks' = [io_tasks EXCEPT !["monitor"] = "err"]
                        /\ stall_usb_bytes_last' = delta_usb
                        /\ stall_tcp_bytes_last' = delta_tcp
                        /\ m_elapsed' = m_elapsed
                   ELSE /\ m_pc' = "sleep"
                        /\ io_tasks' = io_tasks
                        /\ stall_usb_bytes_last' = usb_bytes_out
                        /\ stall_tcp_bytes_last' = tcp_bytes_out
                        /\ m_elapsed' = 0
    /\ UNCHANGED <<read_timeout, usb_bytes_written, tcp_bytes_written, m_silent>>
    /\ UNCHANGED <<io_pc, io_mitm, io_iter, tcp_start, io_orphans, io_ops,
                   io_lateOps, io_fired, io_notifies, io_attempts>>
    /\ UNCHANGED <<codecVars, btVars, copyVars, lifeVars>>

\* sleep(Duration::from_millis(100)).await: one tick passes
MonSleep ==
    /\ m_pc = "sleep"
    /\ io_tasks["monitor"] = "running"
    /\ m_elapsed' = m_elapsed + 1
    /\ m_silent' = [d \in Counters |-> Min(m_silent[d] + 1, SilentCap)]
    /\ m_pc' = "loop"
    /\ UNCHANGED <<read_timeout, usb_bytes_written, tcp_bytes_written,
                   stall_usb_bytes_last, stall_tcp_bytes_last, m_checks, m_seen,
                   m_prev>>
    /\ UNCHANGED <<codecVars, btVars, ioVars, copyVars, lifeVars>>

\* one of the other four tasks returns or panics
SessTaskEnd == \E t \in Tasks \ {"monitor"} : TaskEnd(t)

SessionNext ==
    \/ \E t \in Workers : SessWrite(t)
    \/ MonLoop \/ MonSleep
    \/ SessTaskEnd
    \/ IoJoin

SpecSession == SessionInit /\ [][SessionNext]_vars

\* the runtime's timer wakes the monitor, and the supervisor is polled again
\* once a handle it awaits has completed
SpecSessionFair ==
    SpecSession /\ WF_vars(MonLoop) /\ WF_vars(MonSleep) /\ WF_vars(IoJoin)

(* ---- claims on a session under transfer_monitor ---- *)

MonitorRuns == io_tasks["monitor"] = "running"

\* C12 as stated: while transfer_monitor runs, no counter has been unchanged
\* for more than read_timeout plus one tick.
C12_StallWithinOneTick ==
    MonitorRuns => \A d \in Counters : m_silent[d] <= read_timeout + 1

\* C12 amended: transfer_monitor looks at the counters only once more than
\* read_timeout has passed since its previous stall check, so while it runs no
\* counter has been unchanged for more than two such windows, 2 * (read_timeout
\* + 1) ticks.
C12_StallWithinTwoWindows ==
    MonitorRuns => \A d \in Counters : m_silent[d] <= 2 * (read_timeout + 1)

\* C12 witness: the usb counter changed last right after a stall check and has
\* been unchanged for two windows; the monitor is about to find the stall
C12_Witness ==
    /\ MonitorRuns /\ m_pc = "loop" /\ read_timeout = 2
    /\ m_checks = 2 /\ m_elapsed = 3
    /\ m_silent["usb"] = 6 /\ m_silent["tcp"] <= 3

Count(d) == IF d = "usb" THEN usb_bytes_written ELSE tcp_bytes_written

SessionEnded ==
    /\ io_pc = "wait_tcp" /\ io_fired = 1
    /\ Failed(io_tasks) # {}
    /\ \A t \in Tasks : io_tasks[t] # "running"

\* C13: in a running session, if from some point on one of the two counters
\* no longer changes (its worker reads nothing, or has returned Ok at EOF),
\* then eventually a task has failed, none of the five tasks runs any more and
\* need_restart has been fired once.
C13_SilenceEndsSession ==
    \A d \in Counters :
        <>[][Count(d)' = Count(d)]_vars => <>SessionEnded

\* C13 witness: from_file returned Ok at EOF after its only write, from_stream
\* went on writing; the monitor's stall error ended the session
C13_Witness ==
    /\ SessionEnded
    /\ io_tasks["from_file"] = "ok" /\ io_tasks["monitor"] = "err"
    /\ io_tasks["from_stream"] = "aborted"
    /\ tcp_bytes_written = 1 /\ usb_bytes_written = MaxBytes /\ m_checks >= 2

\* C20: a stall check is made only when more than read_timeout has elapsed
\* since the check before (or since the monitor started); at a check the
\* monitor returns the stall error exactly when one of the two counters has
\* the value it had at the check before (0 at the first check); otherwise it
\* takes the loaded values as the new baseline and goes on.  The monitor's only
\* return is that error.
C20_StallIffEitherUnchanged ==
    /\ [][m_checks' # m_checks => m_elapsed > read_timeout]_vars
    /\ [](m_checks = 0 => m_pc # "err")
    /\ [](m_checks > 0 =>
            /\ m_pc = "err" <=>
                  (m_seen.usb = m_prev.usb \/ m_seen.tcp = m_prev.tcp)
            /\ m_pc # "err" =>
                  /\ stall_usb_bytes_last = m_seen.usb
                  /\ stall_tcp_bytes_last = m_seen.tcp
                  /\ m_pc \in {"loop", "sleep"})
    /\ [](/\ m_pc \in {"loop", "sleep", "err"}
          /\ io_tasks["monitor"] \in {"running", "err", "aborted"}
          /\ io_tasks["monitor"] = "err" <=> m_pc = "err")

\* C20 witness: at the second check the usb counter had advanced and the tcp
\* counter had not: the monitor returned the stall error
C20_Witness ==
    /\ m_pc = "err" /\ m_checks = 2
    /\ m_prev.usb > 0 /\ m_prev.tcp > 0
    /\ m_seen.usb > m_prev.usb /\ m_seen.tcp = m_prev.tcp

-----------------------------------------------------------------------------
(* SpecBtLife: power_up_and_wait_for_connection, the outcome of the          *)
(* handshake that follows it, and bluetooth_stop, with the resources they    *)
(* register and the two tasks they spawn.  Strings are sequences of          *)
(* characters.                                                               *)

BT_ALIAS == <<"W", "i", "r", "e", "l", "e", "s", "s", "A", "A", "D", "o", "n", "g", "l", "e">>

\* the first n of 18 characters that all differ
SerialChars ==
    <<"0", "1", "2", "3", "4", "5", "6", "7", "8", "9",
      "a", "b", "c", "d", "e", "f", "g", "h">>
SerialLens == {0, 16, 17, 18}
SerialFiles == {Unreadable} \cup {Readable(SubSeq(SerialChars, 1, n)) : n \in SerialLens}
Aliases == {None, Some(<<"M", "y", "C", "a", "r">>)}

\* get_cpu_serial_number_suffix() on the given serial-number file; the Rust
\* range [10..16] is the 11th to the 16th character
get_cpu_serial_number_suffix(file) ==
    IF ~file.ok THEN [ok |-> FALSE, val |-> <<>>]
    ELSE [ok |-> TRUE,
          val |-> IF Len(file.contents) = 17
                  THEN SubSeq(file.contents, 11, 16) ELSE <<>>]

\* `let alias = match btalias { .. }`
alias_of(btalias, file) ==
    IF btalias.some THEN btalias.val
    ELSE LET suffix == get_cpu_serial_number_suffix(file)
         IN  IF suffix.ok THEN BT_ALIAS \o <<"-">> \o suffix.val ELSE BT_ALIAS

Errors == {"err_bringup", "err_accept_timeout", "err_accept", "err_handshake"}

LifeInit ==
    /\ CodecIdle /\ BtIdle /\ IoIdle /\ CopyIdle /\ MonIdle
    /\ pw_pc = "alias"
    /\ cfg \in [advertise : BOOLEAN, dongle_mode : BOOLEAN, connect : BOOLEAN,
                keepalive : BOOLEAN, btalias : Aliases, serial : SerialFiles]
    /\ alias = <<>>
    /\ powered = FALSE
    /\ handle_ble = FALSE
    /\ handle_agent = FALSE
    /\ handle_aa = FALSE
    /\ hsp_profile = FALSE
    /\ connect_task = "none"
    /\ task_hsp = "none"
    /\ hsp_joinable = FALSE
    /\ pw_result = "none"
    /\ stop_power = "none"
    /\ stop_result = "none"

\* an early return (`?`, or unwinding from a panic) out of
\* power_up_and_wait_for_connection or bluetooth_setup_connection: the locals
\* (or `state`) are dropped.  Dropping a bluer handle unregisters what it
\* stands for; dropping a JoinHandle detaches its task, which runs on, and
\* drops the task's output if it has one.
Return(result) ==
    /\ pw_result' = result
    /\ pw_pc' = "returned"
    /\ handle_ble' = FALSE
    /\ handle_agent' = FALSE
    /\ handle_aa' = FALSE
    /\ hsp_joinable' = FALSE
    /\ hsp_profile' = (hsp_profile /\ task_hsp = "running")
    /\ UNCHANGED <<cfg, alias, connect_task, task_hsp, stop_power, stop_result>>

\* the alias
PwAlias ==
    /\ pw_pc = "alias"
    /\ alias' = alias_of(cfg.btalias, cfg.serial)
    /\ pw_pc' = "adapter"
    /\ UNCHANGED <<cfg, powered, handle_ble, handle_agent, handle_aa, hsp_profile,
                   connect_task, task_hsp, hsp_joinable, pw_result, stop_power,
                   stop_result>>
    /\ UNCHANGED <<codecVars, btVars, ioVars, copyVars, monVars>>

\* Session::new, default_adapter, address, set_alias, set_powered(true),
\* set_pairable(true), each with `?`
PwAdapter ==
    /\ pw_pc = "adapter"
    /\ \E r \in {"ok", "err_before_power", "err_after_power"} :
         IF r = "ok"
         THEN /\ powered' = TRUE
              /\ pw_pc' = "advertise"
              /\ UNCHANGED <<cfg, alias, handle_ble, handle_agent, handle_aa,
                             hsp_profile, connect_task, task_hsp, hsp_joinable,
                             pw_result, stop_power, stop_result>>
         ELSE /\ powered' = (r = "err_after_power" \/ powered)
              /\ Return("err_bringup")
    /\ UNCHANGED <<codecVars, btVars, ioVars, copyVars, monVars>>

\* adapter.advertise(..)? or set_discoverable(true)?, set_discoverable_timeout(0)?
PwAdvertise ==
    /\ pw_pc = "advertise"
    /\ \E ok \in BOOLEAN :
         IF ok
         THEN /\ handle_ble' = cfg.advertise
              /\ pw_pc' = "agent"
              /\ UNCHANGED <<cfg, alias, powered, handle_agent, handle_aa,
                             hsp_profile, connect_task, task_hsp, hsp_joinable,
                             pw_result, stop_power, stop_result>>
         ELSE Return("err_bringup") /\ powered' = powered
    /\ UNCHANGED <<codecVars, btVars, ioVars, copyVars, monVars>>

\* session.register_agent(agent)?
PwAgent ==
    /\ pw_pc = "agent"
    /\ \E ok \in BOOLEAN :
         IF ok
         THEN /\ handle_agent' = TRUE
              /\ pw_pc' = "profiles"
              /\ UNCHANGED <<cfg, alias, powered, handle_ble, handle_aa,
                             hsp_profile, connect_task, task_hsp, hsp_joinable,
                             pw_result, stop_power, stop_result>>
         ELSE Return("err_bringup") /\ powered' = powered
    /\ UNCHANGED <<codecVars, btVars, ioVars, copyVars, monVars>>

\* register_profile(AAWG)?; in dongle mode register_profile(HSP), its error
\* ignored; spawn connect_task when dongle_mode and connect is given; spawn
\* task_hsp when the HSP profile was registered
PwProfiles ==
    /\ pw_pc = "profiles"
    /\ \E aa \in BOOLEAN, hsp \in BOOLEAN :
         IF aa
         THEN /\ handle_aa' = TRUE
              /\ hsp_profile' = (cfg.dongle_mode /\ hsp)
              /\ connect_task' =
                    IF cfg.dongle_mode /\ cfg.connect THEN "running" ELSE "none"
              /\ task_hsp' = IF cfg.dongle_mode /\ hsp THEN "running" ELSE "none"
              /\ hsp_joinable' = (cfg.dongle_mode /\ hsp)
              /\ pw_pc' = "accept"
              /\ UNCHANGED <<cfg, alias, powered, handle_ble, handle_agent,
                             pw_result, stop_power, stop_result>>
         ELSE Return("err_bringup") /\ powered' = powered
    /\ UNCHANGED <<codecVars, btVars, ioVars, copyVars, monVars>>

\* timeout(bt_timeout, handle_aa.next()).await?.expect(..); req.accept()?;
\* connect_task.abort(); the BluetoothState is built
PwAccept ==
    /\ pw_pc = "accept"
    /\ \E r \in {"timeout", "none", "accept_err", "ok"} :
         IF r = "ok"
         THEN /\ connect_task' =
                    IF connect_task = "running" THEN "aborted" ELSE connect_task
              /\ pw_pc' = "handshake"
              /\ UNCHANGED <<cfg, alias, powered, handle_ble, handle_agent,
                             handle_aa, hsp_profile, task_hsp, hsp_joinable,
                             pw_result, stop_power, stop_result>>
         ELSE /\ Return(CASE r = "timeout" -> "err_accept_timeout"
                          [] r = "none" -> "panicked"
                          [] r = "accept_err" -> "err_accept")
              /\ powered' = powered
    /\ UNCHANGED <<codecVars, btVars, ioVars, copyVars, monVars>>

\* the five stages and stream.shutdown(), each with `?`; Ok(state)
PwHandshake ==
    /\ pw_pc = "handshake"
    /\ \E ok \in BOOLEAN :
         IF ok
         THEN /\ pw_result' = "ok"
              /\ pw_pc' = "running"
              /\ UNCHANGED <<cfg, alias, powered, handle_ble, handle_agent,
                             handle_aa, hsp_profile, connect_task, task_hsp,
                             hsp_joinable, stop_power, stop_result>>
         ELSE Return("err_handshake") /\ powered' = powered
    /\ UNCHANGED <<codecVars, btVars, ioVars, copyVars, monVars>>

\* connect_task returns: connected or nothing to connect to (Ok), or
\* device_addresses()? / device()? failed (Err)
ConnectTaskEnd ==
    /\ connect_task = "running"
    /\ \E r \in {"ok", "err"} : connect_task' = r
    /\ UNCHANGED <<pw_pc, cfg, alias, powered, handle_ble, handle_agent, handle_aa,
                   hsp_profile, task_hsp, hsp_joinable, pw_result, stop_power,
                   stop_result>>
    /\ UNCHANGED <<codecVars, btVars, ioVars, copyVars, monVars>>

\* task_hsp ends: Ok(handle_hsp) after accepting a request, Err from
\* req.accept()?, or the panic of expect("received no connect request")
HspTaskEnd ==
    /\ task_hsp = "running"
    /\ \E r \in {"ok", "err", "panicked"} :
         /\ task_hsp' = r
         /\ hsp_profile' = (r = "ok" /\ hsp_joinable)
    /\ UNCHANGED <<pw_pc, cfg, alias, powered, handle_ble, handle_agent, handle_aa,
                   connect_task, hsp_joinable, pw_result, stop_power, stop_result>>
    /\ UNCHANGED <<codecVars, btVars, ioVars, copyVars, monVars>>

\* bluetooth_stop(state), first part: drop handle_ble, handle_agent, handle_aa
StopDrop ==
    /\ pw_pc = "running"
    /\ handle_ble' = FALSE
    /\ handle_agent' = FALSE
    /\ handle_aa' = FALSE
    /\ pw_pc' = "stop_hsp"
    /\ UNCHANGED <<cfg, alias, powered, hsp_profile, connect_task, task_hsp,
                   hsp_joinable, pw_result, stop_power, stop_result>>
    /\ UNCHANGED <<codecVars, btVars, ioVars, copyVars, monVars>>

\* `if let Some(handle) = state.handle_hsp { match timeout(2.5 s, handle).await ..`
\* for a task in state `st`; timed_out: the 2.5 s ran out on a running task
stop_hsp(st, timed_out) ==
    IF st = "none" THEN "no_task"
    ELSE IF st = "running" THEN (IF timed_out THEN "warn_timeout" ELSE "pending")
    ELSE IF st = "ok" THEN "drop_profile"
    ELSE IF st = "err" THEN "warn_error"
    ELSE "return_join_error"

StopHsp ==
    /\ pw_pc = "stop_hsp"
    /\ \E timed_out \in BOOLEAN :
         LET r == stop_hsp(task_hsp, timed_out)
         IN  /\ r # "pending"
             /\ hsp_joinable' = FALSE
             /\ hsp_profile' = (hsp_profile /\ r = "warn_timeout")
             /\ IF r = "return_join_error"
                THEN pw_pc' = "stopped" /\ stop_result' = "err"
                ELSE pw_pc' = "stop_power" /\ stop_result' = stop_result
    /\ UNCHANGED <<cfg, alias, powered, handle_ble, handle_agent, handle_aa,
                   connect_task, task_hsp, pw_result, stop_power>>
    /\ UNCHANGED <<codecVars, btVars, ioVars, copyVars, monVars>>

\* `if state.keepalive { .. } else { state.adapter.set_powered(false).await?; }`
StopPower ==
    /\ pw_pc = "stop_power"
    /\ \E ok \in BOOLEAN :
         IF cfg.keepalive
         THEN stop_power' = "kept" /\ stop_result' = "ok" /\ powered' = powered
         ELSE IF ok
         THEN stop_power' = "off" /\ stop_result' = "ok" /\ powered' = FALSE
         ELSE stop_power' = "failed" /\ stop_result' = "err" /\ powered' = powered
    /\ pw_pc' = "stopped"
    /\ UNCHANGED <<cfg, alias, handle_ble, handle_agent, handle_aa, hsp_profile,
                   connect_task, task_hsp, hsp_joinable, pw_result>>
    /\ UNCHANGED <<codecVars, btVars, ioVars, copyVars, monVars>>

LifeNext ==
    \/ PwAlias \/ PwAdapter \/ PwAdvertise \/ PwAgent \/ PwProfiles
    \/ PwAccept \/ PwHandshake
    \/ ConnectTaskEnd \/ HspTaskEnd
    \/ StopDrop \/ StopHsp \/ StopPower

SpecBtLife == LifeInit /\ [][LifeNext]_vars

(* ---- claims on bring-up and shutdown ---- *)

\* C14 as stated: when the AAWG accept timed out, bluetooth_setup_connection
\* returned the accept-timeout error and the adapter is powered off exactly
\* when keepalive is false.
C14_TimeoutPowersOff ==
    pw_result = "err_accept_timeout" => (powered <=> cfg.keepalive)

\* C15 as stated: whatever became of the HSP acceptance task, bluetooth_stop
\* reaches its power step (adapter powered off when keepalive is false, left
\* as it is when keepalive is true) and returns an error only when powering
\* off failed.
C15_HspNeverFatal ==
    pw_pc = "stopped" =>
        /\ stop_power # "none"
        /\ cfg.keepalive => (stop_power = "kept" /\ stop_result = "ok")
        /\ ~cfg.keepalive => stop_power \in {"off", "failed"}
        /\ stop_power = "off" => ~powered
        /\ stop_result = "err" => stop_power = "failed"

\* C16 as stated: once bluetooth_setup_connection has returned an error, no
\* BLE advertisement, pairing agent, AAWG profile or HSP profile is
\* registered, and neither connect_task nor task_hsp runs.
C16_NothingRetained ==
    pw_result \in Errors =>
        /\ ~handle_ble /\ ~handle_agent /\ ~handle_aa /\ ~hsp_profile
        /\ connect_task # "running"
        /\ task_hsp # "running"

\* the last n characters of a string
Last(str, n) == SubSeq(str, Len(str) - n + 1, Len(str))

\* C18 as stated: a given btalias is the alias; without one, a readable serial
\* number of exactly 17 characters gives "WirelessAADongle-" and its last 6
\* characters; an unreadable one or one of another length gives
\* "WirelessAADongle" alone.
C18_AliasSelection ==
    pw_pc # "alias" =>
        alias = IF cfg.btalias.some THEN cfg.btalias.val
                ELSE IF cfg.serial.ok /\ Len(cfg.serial.contents) = 17
                THEN BT_ALIAS \o <<"-">> \o Last(cfg.serial.contents, 6)
                ELSE BT_ALIAS

====
